---- MODULE Spec2Model ----
(***************************************************************************)
(* Model of main.py: a five-stage batch pipeline                           *)
(*   leer_datos_excel -> realizar_analisis -> generar_reporte ->           *)
(*   generar_grafico -> enviar_reporte_whatsapp                            *)
(* Each stage function is an operator from its arguments and from the      *)
(* outcome of the external library it calls (pandas, matplotlib, twilio)   *)
(* to a record of its return value and its effects.  Spec runs the         *)
(* __main__ block; SpecFn runs a host that imports the module and calls    *)
(* the stage functions in any order.                                       *)
(***************************************************************************)
EXTENDS Integers, Sequences, FiniteSets, TLC

(* ---------------------------------------------------------------- bounds *)
MaxFilas == 3
MaxLlamadas == 2

(* ------------------------------------------------------------ data model *)
\* Python's None and a present value: None is <<>>, a value v is <<v>>.
None == <<>>
Some(v) == <<v>>

\* A missing cell of the category column (pandas reads it as NaN).
NaN == "NaN"
Categorias == {"Books", "Electronics"}
\* groupby sorts the group keys: the order of the keys in the aggregate.
CategoriasOrden == <<"Books", "Electronics">>
Medidas == {30, 50, 100}

\* The two column headers of a sheet; the code expects 'Categoria', 'Ventas'.
Encabezados == {<<"Categoria", "Ventas">>, <<"Category", "Ventas">>,
                <<"Categoria", "Sales">>}
Filas == UNION {[1..n -> (Categorias \cup {NaN}) \X Medidas] : n \in 0..MaxFilas}
\* A DataFrame: the headers and the rows <<category cell, measure cell>>.
DataFrames == [encabezados : Encabezados, filas : Filas]

ArchivoVacio == [encabezados |-> <<"Categoria", "Ventas">>, filas |-> <<>>]
\* The input file: present with a sheet, absent, or present and unreadable.
Archivos == [estado : {"ok"}, hoja : DataFrames]
            \cup [estado : {"missing", "corrupt"}, hoja : {ArchivoVacio}]

TieneColumna(df, nombre) == \E i \in 1..Len(df.encabezados) : df.encabezados[i] = nombre

(* ------------------------------------------------------- pandas, modelled *)
RECURSIVE Acumular(_, _)
\* One pass over the rows: a row with a missing key is dropped, a new key
\* opens a group, a known key adds to its group.
Acumular(filas, acc) ==
    IF filas = <<>> THEN acc
    ELSE LET c == Head(filas)[1]
             v == Head(filas)[2]
         IN Acumular(Tail(filas),
                     IF c = NaN THEN acc
                     ELSE IF c \in DOMAIN acc THEN [acc EXCEPT ![c] = @ + v]
                     ELSE acc @@ (c :> v))

RECURSIVE AcumularObservado(_, _)
AcumularObservado(filas, acc) ==
    IF filas = <<>> THEN acc
    ELSE LET c == Head(filas)[1]
             v == Head(filas)[2]
         IN AcumularObservado(Tail(filas),
                     IF c = NaN THEN acc ELSE [acc EXCEPT ![c] = @ + v])

\* Variant: every known category gets a group, observed or not (zero sums).
groupby_sum_todas(filas) == AcumularObservado(filas, [c \in Categorias |-> 0])

\* df.groupby('Categoria')['Ventas'].sum()
groupby_sum(filas) == Acumular(filas, <<>>)

RECURSIVE Suma(_)
Suma(filas) == IF filas = <<>> THEN 0 ELSE Head(filas)[2] + Suma(Tail(filas))

RECURSIVE Minimo(_)
Minimo(filas) ==
    IF Len(filas) = 1 THEN filas[1][2]
    ELSE LET m == Minimo(Tail(filas)) IN IF filas[1][2] < m THEN filas[1][2] ELSE m

RECURSIVE Maximo(_)
Maximo(filas) ==
    IF Len(filas) = 1 THEN filas[1][2]
    ELSE LET m == Maximo(Tail(filas)) IN IF filas[1][2] > m THEN filas[1][2] ELSE m

\* df['Ventas'].describe(): count, mean (as sum over count), min, max; the
\* standard deviation and the quartiles are not modelled.
describe(filas) ==
    IF filas = <<>>
    THEN [count |-> 0, suma |-> 0, min |-> NaN, max |-> NaN]
    ELSE [count |-> Len(filas), suma |-> Suma(filas),
          min |-> Minimo(filas), max |-> Maximo(filas)]

RECURSIVE LineasSerie(_, _)
\* Series.to_string(): one line per key, in key order.
LineasSerie(serie, i) ==
    IF i > Len(CategoriasOrden) THEN ""
    ELSE (IF CategoriasOrden[i] \in DOMAIN serie
          THEN "\n" \o CategoriasOrden[i] \o "    " \o ToString(serie[CategoriasOrden[i]])
          ELSE "") \o LineasSerie(serie, i + 1)

serie_to_string(serie) == "Categoria" \o LineasSerie(serie, 1)

estadisticas_to_string(est) ==
    "count    " \o ToString(est.count)
    \o "\nsum/count    " \o ToString(est.suma) \o "/" \o ToString(est.count)
    \o "\nmin    " \o ToString(est.min)
    \o "\nmax    " \o ToString(est.max)

(* ------------------------------------------------------- stage functions *)
\* Each returns [ret, log, raised] and its effects; raised is TRUE when an
\* exception leaves the function.

\* Lines 17-29.  pd.read_excel raises FileNotFoundError for an absent file
\* and another exception for an unreadable one.
leer_datos_excel_vacio(archivo) ==
    IF archivo.estado = "ok"
    THEN [ret |-> Some(archivo.hoja), raised |-> FALSE,
          log |-> <<"INFO:leyendo", "INFO:leido">>]
    ELSE [ret |-> Some(ArchivoVacio), raised |-> FALSE,
          log |-> <<"INFO:leyendo", "ERROR:archivo no encontrado">>]

leer_datos_excel(archivo) ==
    IF archivo.estado = "ok"
    THEN [ret |-> Some(archivo.hoja), raised |-> FALSE,
          log |-> <<"INFO:leyendo", "INFO:leido">>]
    ELSE IF archivo.estado = "missing"
    THEN [ret |-> None, raised |-> FALSE,
          log |-> <<"INFO:leyendo", "ERROR:archivo no encontrado">>]
    ELSE [ret |-> None, raised |-> FALSE,
          log |-> <<"INFO:leyendo", "EXCEPTION:leer">>]

\* Variant: a missing column yields the pair (None, None) instead of None.
realizar_analisis_par(df) ==
    IF df = None
    THEN [ret |-> None, raised |-> FALSE, log |-> <<"WARNING:df None">>]
    ELSE IF ~TieneColumna(df[1], "Categoria") \/ ~TieneColumna(df[1], "Ventas")
    THEN [ret |-> Some(<<None, None>>), raised |-> FALSE,
          log |-> <<"EXCEPTION:analisis">>]
    ELSE [ret |-> Some(<<Some(groupby_sum(df[1].filas)), Some(describe(df[1].filas))>>),
          raised |-> FALSE,
          log |-> <<"INFO:ventas por categoria", "INFO:estadisticas">>]

\* Lines 31-50.  groupby('Categoria') and ['Ventas'] raise KeyError when the
\* column is absent; the except clause turns it into None.
realizar_analisis(df) ==
    IF df = None
    THEN [ret |-> None, raised |-> FALSE, log |-> <<"WARNING:df None">>]
    ELSE IF ~TieneColumna(df[1], "Categoria") \/ ~TieneColumna(df[1], "Ventas")
    THEN [ret |-> None, raised |-> FALSE, log |-> <<"EXCEPTION:analisis">>]
    ELSE [ret |-> Some(<<Some(groupby_sum(df[1].filas)), Some(describe(df[1].filas))>>),
          raised |-> FALSE,
          log |-> <<"INFO:ventas por categoria", "INFO:estadisticas">>]

NoSePudoGenerar == "No se pudo generar el reporte debido a errores en el análisis."
ErrorAlGenerar == "Error al generar el reporte."
TextosDeFallo == {NoSePudoGenerar, ErrorAlGenerar}

\* Lines 52-69.  falla: to_string raises.
generar_reporte(ventas_por_categoria, estadisticas_ventas, falla) ==
    IF ventas_por_categoria = None \/ estadisticas_ventas = None
    THEN [ret |-> NoSePudoGenerar, raised |-> FALSE,
          log |-> <<"WARNING:no se pudo generar el reporte">>]
    ELSE IF falla
    THEN [ret |-> ErrorAlGenerar, raised |-> FALSE, log |-> <<"EXCEPTION:reporte">>]
    ELSE [ret |-> "--- Reporte de Ventas ---\n\n"
                  \o "Total de Ventas por Categoría:\n"
                  \o serie_to_string(ventas_por_categoria[1]) \o "\n\n"
                  \o "Estadísticas Descriptivas de Ventas:\n"
                  \o estadisticas_to_string(estadisticas_ventas[1]) \o "\n"
                  \o "\n--- Fin del Reporte ---",
          raised |-> FALSE,
          log |-> <<"INFO:reporte generado">>]

\* The matplotlib call of generar_grafico that raises, if any.
FallosPlt == {"ok", "figure", "plot", "tight_layout", "savefig"}
RutaGrafico == "reports/ventas_categoria.png"

\* Variant: no except clause around the matplotlib calls.
generar_grafico_sin_except(ventas_por_categoria, plt) ==
    IF ventas_por_categoria = None
    THEN [ret |-> None, raised |-> FALSE, abiertas |-> 0,
          log |-> <<"WARNING:no se pudo generar el grafico">>]
    ELSE IF plt = "ok"
    THEN [ret |-> Some(RutaGrafico), raised |-> FALSE, abiertas |-> 0,
          log |-> <<"INFO:grafico guardado">>]
    ELSE [ret |-> None, raised |-> TRUE,
          abiertas |-> IF plt = "figure" THEN 0 ELSE 1, log |-> <<>>]

\* Lines 88-108.  plt.figure opens a figure; plt.close is reached only when
\* plot, the labels, tight_layout and savefig all returned.  abiertas is the
\* number of figures the call leaves open.
generar_grafico(ventas_por_categoria, plt) ==
    IF ventas_por_categoria = None
    THEN [ret |-> None, raised |-> FALSE, abiertas |-> 0,
          log |-> <<"WARNING:no se pudo generar el grafico">>]
    ELSE IF plt = "ok"
    THEN [ret |-> Some(RutaGrafico), raised |-> FALSE, abiertas |-> 0,
          log |-> <<"INFO:grafico guardado">>]
    ELSE [ret |-> None, raised |-> FALSE,
          abiertas |-> IF plt = "figure" THEN 0 ELSE 1,
          log |-> <<"EXCEPTION:grafico">>]

\* What twilio does: the Client constructor raises, messages.create raises,
\* messages.create rejects the media reference, or the message is accepted.
FallosTwilio == {"ok", "client", "create"}
FallosTwilioMedia == FallosTwilio \cup {"media"}

\* Variant: no except clause around the provider call.
enviar_reporte_whatsapp_sin_except(reporte, twilio) ==
    IF twilio = "client"
    THEN [creates |-> <<>>, raised |-> TRUE, log |-> <<"INFO:intentando enviar">>]
    ELSE IF twilio = "ok"
    THEN [creates |-> <<[body |-> reporte, media |-> None, ok |-> TRUE]>>,
          raised |-> FALSE,
          log |-> <<"INFO:intentando enviar", "INFO:enviado">>]
    ELSE [creates |-> <<[body |-> reporte, media |-> None, ok |-> FALSE]>>,
          raised |-> TRUE,
          log |-> <<"INFO:intentando enviar">>]

\* Lines 71-86.  creates: the messages.create calls made, each with its body,
\* its media reference and whether the provider accepted it.
enviar_reporte_whatsapp(reporte, twilio) ==
    IF twilio = "client"
    THEN [creates |-> <<>>, raised |-> FALSE,
          log |-> <<"INFO:intentando enviar", "EXCEPTION:enviar">>]
    ELSE IF twilio = "ok"
    THEN [creates |-> <<[body |-> reporte, media |-> None, ok |-> TRUE]>>,
          raised |-> FALSE,
          log |-> <<"INFO:intentando enviar", "INFO:enviado">>]
    ELSE [creates |-> <<[body |-> reporte, media |-> None, ok |-> FALSE]>>,
          raised |-> FALSE,
          log |-> <<"INFO:intentando enviar", "EXCEPTION:enviar">>]

\* f"https://tu_servidor.com/{ruta_imagen}": None is formatted as 'None'.
media_url(ruta_imagen) ==
    "https://tu_servidor.com/" \o (IF ruta_imagen = None THEN "None" ELSE ruta_imagen[1])

\* Lines 110-125.  One messages.create with the media reference; the except
\* clause logs and returns, no second call is made.
enviar_reporte_whatsapp_con_imagen(reporte, ruta_imagen, twilio) ==
    IF twilio = "client"
    THEN [creates |-> <<>>, raised |-> FALSE,
          log |-> <<"INFO:intentando enviar con grafico", "EXCEPTION:enviar con grafico">>]
    ELSE [creates |-> <<[body |-> reporte, media |-> Some(media_url(ruta_imagen)),
                         ok |-> (twilio = "ok")]>>,
          raised |-> FALSE,
          log |-> IF twilio = "ok"
                  THEN <<"INFO:intentando enviar con grafico", "INFO:enviado con grafico">>
                  ELSE <<"INFO:intentando enviar con grafico", "EXCEPTION:enviar con grafico">>]

(* ------------------------------------------------------- the main block *)
\* Line 135: the unpacking of realizar_analisis' return value; unpacking
\* None raises TypeError.
desempaquetar(resultado) ==
    IF resultado = None
    THEN [raised |-> TRUE, ventas |-> None, estadisticas |-> None]
    ELSE [raised |-> FALSE, ventas |-> resultado[1][1], estadisticas |-> resultado[1][2]]

\* Variant: both delivery calls left uncommented.
entrega_ambas(reporte, ruta_grafico, twilio) ==
    LET r == enviar_reporte_whatsapp(reporte, twilio)
        q == enviar_reporte_whatsapp_con_imagen(reporte, ruta_grafico, twilio)
    IN [llamadas |-> <<"enviar_reporte_whatsapp", "enviar_reporte_whatsapp_con_imagen">>,
        creates |-> r.creates \o q.creates, log |-> r.log \o q.log,
        raised |-> r.raised \/ q.raised]

\* Variant: the chart link appended to the body when a chart was rendered.
entrega_con_enlace(reporte, ruta_grafico, twilio) ==
    LET cuerpo == IF ruta_grafico = None THEN reporte
                  ELSE reporte \o "\n\n" \o media_url(ruta_grafico)
        r == enviar_reporte_whatsapp(cuerpo, twilio)
    IN [llamadas |-> <<"enviar_reporte_whatsapp">>, creates |-> r.creates,
        log |-> r.log, raised |-> r.raised]

\* Lines 144-147: the delivery call in use is the text-only one; the one with
\* the image is commented out.
entrega(reporte, ruta_grafico, twilio) ==
    LET r == enviar_reporte_whatsapp(reporte, twilio)
    IN [llamadas |-> <<"enviar_reporte_whatsapp">>, creates |-> r.creates,
        log |-> r.log, raised |-> r.raised]

\* Variant: the handler re-raises.
main_except_reraise(exc) ==
    [escaped |-> exc,
     log |-> IF exc THEN <<"EXCEPTION:error inesperado en el flujo principal">> ELSE <<>>]

\* Lines 131, 154-155: the try/except Exception around the whole main block.
main_except(exc) ==
    [escaped |-> FALSE,
     log |-> IF exc THEN <<"EXCEPTION:error inesperado en el flujo principal">> ELSE <<>>]

VARIABLES
    archivo,               \* the input file as the file system holds it
    pc,                    \* the position in the main block, or "host"
    df,                    \* leer_datos_excel's return value
    resultado,             \* realizar_analisis' return value
    ventas_por_categoria,  \* main's variables, None while unassigned
    estadisticas_ventas,
    reporte,
    ruta_grafico,
    llamadas,              \* the stage functions invoked so far, in order
    figuras,               \* matplotlib figures open
    mensajes,              \* the messages.create calls made so far
    log,                   \* app.log
    raised,                \* an exception left a stage function
    escaped,               \* an exception left the main block
    ultima                 \* the last stage call: function, library outcome, arguments

vars == <<archivo, pc, df, resultado, ventas_por_categoria, estadisticas_ventas,
          reporte, ruta_grafico, llamadas, figuras, mensajes, log, raised,
          escaped, ultima>>

\* creates: the messages.create calls the call made.
Llamada(fn, ext, rep, ruta, creates) ==
    [fn |-> fn, ext |-> ext, reporte |-> rep, ruta |-> ruta, creates |-> creates]

InitComun ==
    /\ df = None
    /\ resultado = None
    /\ ventas_por_categoria = None
    /\ estadisticas_ventas = None
    /\ reporte = None
    /\ ruta_grafico = None
    /\ llamadas = <<>>
    /\ figuras = 0
    /\ mensajes = <<>>
    /\ log = <<>>
    /\ raised = FALSE
    /\ escaped = FALSE
    /\ ultima = Llamada("", "", "", None, <<>>)

Init ==
    /\ archivo \in Archivos
    /\ pc = "leer"
    /\ InitComun

\* Line 132 and the gate of lines 134, 151-152.
MainLeer ==
    /\ pc = "leer"
    /\ LET r == leer_datos_excel(archivo)
           h == main_except(r.raised)
       IN /\ df' = IF r.raised THEN df ELSE r.ret
          /\ llamadas' = Append(llamadas, "leer_datos_excel")
          /\ ultima' = Llamada("leer_datos_excel", archivo.estado, "", None, <<>>)
          /\ raised' = (raised \/ r.raised)
          /\ escaped' = (escaped \/ h.escaped)
          /\ log' = log \o r.log \o h.log \o
                    (IF ~r.raised /\ r.ret = None
                     THEN <<"ERROR:no se pudo procesar el archivo Excel">> ELSE <<>>)
          /\ pc' = IF r.raised \/ r.ret = None THEN "fin" ELSE "analizar"
    /\ UNCHANGED <<archivo, resultado, ventas_por_categoria, estadisticas_ventas,
                   reporte, ruta_grafico, figuras, mensajes>>

\* Line 135 and the gate of lines 137, 149-150.
MainAnalizar ==
    /\ pc = "analizar"
    /\ LET r == realizar_analisis(df)
           u == desempaquetar(r.ret)
           exc == r.raised \/ u.raised
           h == main_except(exc)
           pasa == ~exc /\ u.ventas # None /\ u.estadisticas # None
       IN /\ resultado' = IF r.raised THEN resultado ELSE r.ret
          /\ ventas_por_categoria' = IF exc THEN ventas_por_categoria ELSE u.ventas
          /\ estadisticas_ventas' = IF exc THEN estadisticas_ventas ELSE u.estadisticas
          /\ llamadas' = Append(llamadas, "realizar_analisis")
          /\ ultima' = Llamada("realizar_analisis",
                               IF r.ret = None THEN "KeyError" ELSE "ok", "", None, <<>>)
          /\ raised' = (raised \/ r.raised)
          /\ escaped' = (escaped \/ h.escaped)
          /\ log' = log \o r.log \o h.log \o
                    (IF ~exc /\ ~pasa
                     THEN <<"WARNING:no se pudo realizar el analisis o generar el reporte">>
                     ELSE <<>>)
          /\ pc' = IF pasa THEN "reporte" ELSE "fin"
    /\ UNCHANGED <<archivo, df, reporte, ruta_grafico, figuras, mensajes>>

\* Lines 138-140.
MainReporte ==
    /\ pc = "reporte"
    /\ \E falla \in BOOLEAN :
         LET r == generar_reporte(ventas_por_categoria, estadisticas_ventas, falla)
             h == main_except(r.raised)
         IN /\ reporte' = IF r.raised THEN reporte ELSE Some(r.ret)
            /\ llamadas' = Append(llamadas, "generar_reporte")
            /\ ultima' = Llamada("generar_reporte",
                                 IF falla THEN "to_string" ELSE "ok", "", None, <<>>)
            /\ raised' = (raised \/ r.raised)
            /\ escaped' = (escaped \/ h.escaped)
            /\ log' = log \o r.log \o h.log \o
                      (IF r.raised THEN <<>> ELSE <<"INFO:reporte generado (main)">>)
            /\ pc' = IF r.raised THEN "fin" ELSE "grafico"
    /\ UNCHANGED <<archivo, df, resultado, ventas_por_categoria, estadisticas_ventas,
                   ruta_grafico, figuras, mensajes>>

\* Line 142.
MainGrafico ==
    /\ pc = "grafico"
    /\ \E plt \in FallosPlt :
         LET r == generar_grafico(ventas_por_categoria, plt)
             h == main_except(r.raised)
         IN /\ ruta_grafico' = IF r.raised THEN ruta_grafico ELSE r.ret
            /\ figuras' = figuras + r.abiertas
            /\ llamadas' = Append(llamadas, "generar_grafico")
            /\ ultima' = Llamada("generar_grafico", plt, "", None, <<>>)
            /\ raised' = (raised \/ r.raised)
            /\ escaped' = (escaped \/ h.escaped)
            /\ log' = log \o r.log \o h.log
            /\ pc' = IF r.raised THEN "fin" ELSE "enviar"
    /\ UNCHANGED <<archivo, df, resultado, ventas_por_categoria, estadisticas_ventas,
                   reporte, mensajes>>

\* Lines 146-147.
MainEnviar ==
    /\ pc = "enviar"
    /\ \E twilio \in FallosTwilio :
         LET r == entrega(reporte[1], ruta_grafico, twilio)
             h == main_except(r.raised)
         IN /\ mensajes' = mensajes \o r.creates
            /\ llamadas' = llamadas \o r.llamadas
            /\ ultima' = Llamada(r.llamadas[Len(r.llamadas)], twilio, reporte[1], None, r.creates)
            /\ raised' = (raised \/ r.raised)
            /\ escaped' = (escaped \/ h.escaped)
            /\ log' = log \o r.log \o h.log
            /\ pc' = "fin"
    /\ UNCHANGED <<archivo, df, resultado, ventas_por_categoria, estadisticas_ventas,
                   reporte, ruta_grafico, figuras>>

Next == MainLeer \/ MainAnalizar \/ MainReporte \/ MainGrafico \/ MainEnviar

Spec == Init /\ [][Next]_vars

(* ------------------------------------------- a host calling the stages *)
\* The arguments a host passes: small sets around the spreadsheet of the
\* example (Electronics 100, Electronics 50, Books 30).
FilasEjemplo == <<<<"Electronics", 100>>, <<"Electronics", 50>>, <<"Books", 30>>>>
HojaEjemplo == [encabezados |-> <<"Categoria", "Ventas">>, filas |-> FilasEjemplo]
HojaSinCategoria == [encabezados |-> <<"Category", "Ventas">>, filas |-> FilasEjemplo]
ArchivosHost == {[estado |-> "ok", hoja |-> HojaEjemplo],
                 [estado |-> "ok", hoja |-> HojaSinCategoria],
                 [estado |-> "missing", hoja |-> ArchivoVacio],
                 [estado |-> "corrupt", hoja |-> ArchivoVacio]}
DfsHost == {None, Some(HojaEjemplo), Some(HojaSinCategoria)}
SeriesHost == {None, Some(groupby_sum(FilasEjemplo))}
EstadisticasHost == {None, Some(describe(FilasEjemplo))}
ReportesHost == {NoSePudoGenerar, "--- Reporte de Ventas ---"}
RutasHost == {None, Some(RutaGrafico)}

InitFn ==
    /\ archivo \in ArchivosHost
    /\ pc = "host"
    /\ InitComun

PuedeLlamar == pc = "host" /\ Len(llamadas) < MaxLlamadas

HostLeer ==
    /\ PuedeLlamar
    /\ \E a \in ArchivosHost :
         LET r == leer_datos_excel(a)
         IN /\ archivo' = a
            /\ df' = IF r.raised THEN df ELSE r.ret
            /\ llamadas' = Append(llamadas, "leer_datos_excel")
            /\ ultima' = Llamada("leer_datos_excel", a.estado, "", None, <<>>)
            /\ raised' = (raised \/ r.raised)
            /\ log' = log \o r.log
    /\ UNCHANGED <<pc, resultado, ventas_por_categoria, estadisticas_ventas, reporte,
                   ruta_grafico, figuras, mensajes, escaped>>

HostAnalizar ==
    /\ PuedeLlamar
    /\ \E d \in DfsHost :
         LET r == realizar_analisis(d)
         IN /\ df' = d
            /\ resultado' = IF r.raised THEN resultado ELSE r.ret
            /\ llamadas' = Append(llamadas, "realizar_analisis")
            /\ ultima' = Llamada("realizar_analisis",
                                 IF r.ret = None THEN "KeyError" ELSE "ok", "", None, <<>>)
            /\ raised' = (raised \/ r.raised)
            /\ log' = log \o r.log
    /\ UNCHANGED <<archivo, pc, ventas_por_categoria, estadisticas_ventas, reporte,
                   ruta_grafico, figuras, mensajes, escaped>>

HostReporte ==
    /\ PuedeLlamar
    /\ \E v \in SeriesHost, e \in EstadisticasHost, falla \in BOOLEAN :
         LET r == generar_reporte(v, e, falla)
         IN /\ ventas_por_categoria' = v
            /\ estadisticas_ventas' = e
            /\ reporte' = IF r.raised THEN reporte ELSE Some(r.ret)
            /\ llamadas' = Append(llamadas, "generar_reporte")
            /\ ultima' = Llamada("generar_reporte",
                                 IF falla THEN "to_string" ELSE "ok", "", None, <<>>)
            /\ raised' = (raised \/ r.raised)
            /\ log' = log \o r.log
    /\ UNCHANGED <<archivo, pc, df, resultado, ruta_grafico, figuras, mensajes, escaped>>

HostGrafico ==
    /\ PuedeLlamar
    /\ \E v \in SeriesHost, plt \in FallosPlt :
         LET r == generar_grafico(v, plt)
         IN /\ ventas_por_categoria' = v
            /\ ruta_grafico' = IF r.raised THEN ruta_grafico ELSE r.ret
            /\ figuras' = figuras + r.abiertas
            /\ llamadas' = Append(llamadas, "generar_grafico")
            /\ ultima' = Llamada("generar_grafico", plt, "", None, <<>>)
            /\ raised' = (raised \/ r.raised)
            /\ log' = log \o r.log
    /\ UNCHANGED <<archivo, pc, df, resultado, estadisticas_ventas, reporte,
                   mensajes, escaped>>

HostEnviar ==
    /\ PuedeLlamar
    /\ \E rep \in ReportesHost, twilio \in FallosTwilio :
         LET r == enviar_reporte_whatsapp(rep, twilio)
         IN /\ mensajes' = mensajes \o r.creates
            /\ llamadas' = Append(llamadas, "enviar_reporte_whatsapp")
            /\ ultima' = Llamada("enviar_reporte_whatsapp", twilio, rep, None, r.creates)
            /\ raised' = (raised \/ r.raised)
            /\ log' = log \o r.log
    /\ UNCHANGED <<archivo, pc, df, resultado, ventas_por_categoria, estadisticas_ventas,
                   reporte, ruta_grafico, figuras, escaped>>

HostEnviarConImagen ==
    /\ PuedeLlamar
    /\ \E rep \in ReportesHost, ruta \in RutasHost, twilio \in FallosTwilioMedia :
         LET r == enviar_reporte_whatsapp_con_imagen(rep, ruta, twilio)
         IN /\ mensajes' = mensajes \o r.creates
            /\ llamadas' = Append(llamadas, "enviar_reporte_whatsapp_con_imagen")
            /\ ultima' = Llamada("enviar_reporte_whatsapp_con_imagen", twilio, rep, ruta, r.creates)
            /\ raised' = (raised \/ r.raised)
            /\ log' = log \o r.log
    /\ UNCHANGED <<archivo, pc, df, resultado, ventas_por_categoria, estadisticas_ventas,
                   reporte, ruta_grafico, figuras, escaped>>

NextFn == HostLeer \/ HostAnalizar \/ HostReporte \/ HostGrafico \/ HostEnviar
          \/ HostEnviarConImagen

SpecFn == InitFn /\ [][NextFn]_vars

(* ------------------------------------------------------------ properties *)
Orden == <<"leer_datos_excel", "realizar_analisis", "generar_reporte",
           "generar_grafico", "enviar_reporte_whatsapp">>
EsPrefijo(s, t) == Len(s) <= Len(t) /\ \A i \in 1..Len(s) : s[i] = t[i]
Invocada(fn) == \E i \in DOMAIN llamadas : llamadas[i] = fn
Veces(fn) == Cardinality({i \in DOMAIN llamadas : llamadas[i] = fn})
Posicion(fn) == CHOOSE i \in DOMAIN llamadas : llamadas[i] = fn
Registrado(entrada) == \E i \in DOMAIN log : log[i] = entrada
ErrorInesperado == "EXCEPTION:error inesperado en el flujo principal"

\* C1 (as stated): the stages run in the order loader, analyzer, formatter,
\* renderer, delivery, and once any stage has returned an empty or failure
\* result no later stage is invoked: nothing after a None table, after a
\* None analysis, after the formatter's failure text, after a None chart.
C1_HaltOnAnyFailure ==
    /\ EsPrefijo(llamadas, Orden)
    /\ (Len(llamadas) >= 1 /\ df = None => Len(llamadas) = 1)
    /\ (Len(llamadas) >= 2 /\ resultado = None => Len(llamadas) = 2)
    /\ (Len(llamadas) >= 3 /\ reporte[1] \in TextosDeFallo => Len(llamadas) = 3)
    /\ (Len(llamadas) >= 4 /\ ruta_grafico = None => Len(llamadas) = 4)

\* C1 (amended): the stages run in that order; a None from the loader or
\* from the analyzer ends the run with no later stage invoked; the
\* formatter's failure text and a None chart do not: once the analysis
\* succeeded, the run invokes all five stages.
C1_HaltOnLoaderOrAnalyzerFailure ==
    /\ EsPrefijo(llamadas, Orden)
    /\ (Len(llamadas) >= 1 /\ df = None => Len(llamadas) = 1 /\ pc = "fin")
    /\ (Len(llamadas) >= 2 /\ resultado = None => Len(llamadas) = 2 /\ pc = "fin")
    /\ (pc = "fin" /\ resultado # None => llamadas = Orden)

C1_Witness ==
    /\ pc = "fin"
    /\ llamadas = Orden
    /\ ruta_grafico = None
    /\ reporte = Some(ErrorAlGenerar)

\* C2: when the input file does not exist, leer_datos_excel returns None
\* and no other stage is invoked in the run (and no message is sent).
C2_MissingFileStopsRun ==
    archivo.estado = "missing" /\ Len(llamadas) >= 1 =>
        /\ df = None
        /\ llamadas = <<"leer_datos_excel">>
        /\ mensajes = <<>>
        /\ pc = "fin"

C2_Witness ==
    /\ pc = "fin"
    /\ archivo.estado = "missing"
    /\ Registrado("ERROR:archivo no encontrado")

SinCategoria == df # None /\ ~TieneColumna(df[1], "Categoria")

\* C3 (as stated): when the table lacks the column 'Categoria', the analyzer
\* logs the error and returns None without raising, and the run then invokes
\* generar_reporte, which returns the fixed failure message.
C3_FormatterReturnsFailureText ==
    pc = "fin" /\ SinCategoria =>
        /\ resultado = None
        /\ ~raised
        /\ Registrado("EXCEPTION:analisis")
        /\ Invocada("generar_reporte")
        /\ reporte = Some(NoSePudoGenerar)

\* C3 (amended): when the table lacks the column 'Categoria', the analyzer
\* logs the error and returns None without raising; the run then ends
\* without invoking generar_reporte: unpacking None raises in the main
\* block, and the main block's except clause logs it.
C3_FormatterNotInvoked ==
    pc = "fin" /\ SinCategoria =>
        /\ resultado = None
        /\ ~raised
        /\ Registrado("EXCEPTION:analisis")
        /\ ~Invocada("generar_reporte")
        /\ reporte = None
        /\ log[Len(log)] = ErrorInesperado
        /\ ~escaped

C3_Witness ==
    /\ pc = "fin"
    /\ SinCategoria
    /\ llamadas = <<"leer_datos_excel", "realizar_analisis">>
    /\ Len(df[1].filas) > 0

\* C4: whatever the stages' outcomes, no exception leaves the main block,
\* and the run is never stuck before its end; this includes the TypeError
\* of unpacking a None analysis.
C4_NoExceptionEscapes ==
    /\ escaped = FALSE
    /\ (pc # "fin" => ENABLED Next)

C4_Witness ==
    /\ pc = "fin"
    /\ resultado = None
    /\ Len(llamadas) = 2
    /\ log[Len(log)] = ErrorInesperado

\* C5 (as stated): every run makes exactly one messages.create call.
C5_ExactlyOneCreate == pc = "fin" => Len(mensajes) = 1

\* C5 (amended): every run makes at most one messages.create call: exactly
\* one when the loader returned a table, the analyzer returned a result and
\* the twilio Client was constructed, none otherwise.
C5_AtMostOneCreate ==
    /\ Len(mensajes) <= 1
    /\ (pc = "fin" =>
          (Len(mensajes) = 1 <=>
             df # None /\ resultado # None /\ ultima.ext # "client"))

C5_Witness ==
    /\ pc = "fin"
    /\ Len(mensajes) = 1
    /\ ruta_grafico = None
    /\ ultima.ext = "create"

\* C6: when the delivery with a chart path cannot attach the chart, the
\* same call still sends one text-only message with the report text.
C6_TextOnlyFallback ==
    /\ ultima.fn = "enviar_reporte_whatsapp_con_imagen"
    /\ ultima.ruta # None
    /\ ultima.ext = "media"
    => \E i \in DOMAIN ultima.creates :
          /\ ultima.creates[i].media = None
          /\ ultima.creates[i].body = ultima.reporte
          /\ ultima.creates[i].ok

\* C7: no figure opened by generar_grafico is open once it has returned,
\* whatever matplotlib call failed, after any sequence of invocations.
C7_FigureClosed == figuras = 0

RECURSIVE SumaDe(_, _)
\* The sum of the measure over a set of row indices.
SumaDe(filas, indices) ==
    IF indices = {} THEN 0
    ELSE LET i == CHOOSE j \in indices : TRUE
         IN filas[i][2] + SumaDe(filas, indices \ {i})

BienFormada(tabla) ==
    /\ TieneColumna(tabla, "Categoria")
    /\ TieneColumna(tabla, "Ventas")
    /\ \A i \in DOMAIN tabla.filas : tabla.filas[i][1] \in Categorias

\* C8: for a well-formed table with N distinct categories the aggregate has
\* exactly N entries, one per category of the table, each the sum of the
\* measure over exactly the rows of that category.
C8_AggregatePerCategory ==
    Len(llamadas) >= 2 /\ df # None /\ BienFormada(df[1]) =>
        /\ resultado # None
        /\ LET agg == resultado[1][1][1]
               filas == df[1].filas
               presentes == {filas[i][1] : i \in DOMAIN filas}
           IN /\ DOMAIN agg = presentes
              /\ Cardinality(DOMAIN agg) = Cardinality(presentes)
              /\ \A c \in presentes :
                    agg[c] = SumaDe(filas, {i \in DOMAIN filas : filas[i][1] = c})

C8_Witness ==
    /\ df = Some(HojaEjemplo)
    /\ resultado # None
    /\ resultado[1][1][1] = [c \in {"Electronics", "Books"} |->
                                IF c = "Books" THEN 30 ELSE 150]
    /\ resultado[1][2][1].count = 3

EntradasDeFallo == {"ERROR:archivo no encontrado", "EXCEPTION:leer", "WARNING:df None",
                    "EXCEPTION:analisis", "WARNING:no se pudo generar el reporte",
                    "EXCEPTION:reporte", "WARNING:no se pudo generar el grafico",
                    "EXCEPTION:grafico", "EXCEPTION:enviar",
                    "EXCEPTION:enviar con grafico"}

\* Whether the last stage call met a failure: of its input or of its library.
UltimaFallo ==
    \/ ultima.fn = "leer_datos_excel" /\ ultima.ext # "ok"
    \/ ultima.fn = "realizar_analisis" /\ ultima.ext # "ok"
    \/ ultima.fn = "generar_reporte"
         /\ (ultima.ext # "ok" \/ ventas_por_categoria = None \/ estadisticas_ventas = None)
    \/ ultima.fn = "generar_grafico" /\ (ultima.ext # "ok" \/ ventas_por_categoria = None)
    \/ ultima.fn = "enviar_reporte_whatsapp" /\ ultima.ext # "ok"
    \/ ultima.fn = "enviar_reporte_whatsapp_con_imagen" /\ ultima.ext # "ok"

\* C9: no stage function lets an exception past its boundary; a failure is
\* logged and the function returns its no-result value: None, or for the
\* formatter one of its two fixed failure texts.
C9_StagesReturnNormally ==
    /\ raised = FALSE
    /\ (UltimaFallo =>
          /\ log[Len(log)] \in EntradasDeFallo
          /\ (ultima.fn = "leer_datos_excel" => df = None)
          /\ (ultima.fn = "realizar_analisis" => resultado = None)
          /\ (ultima.fn = "generar_reporte" => reporte[1] \in TextosDeFallo)
          /\ (ultima.fn = "generar_grafico" => ruta_grafico = None))

C9_Witness ==
    /\ ultima.fn = "enviar_reporte_whatsapp"
    /\ ultima.ext = "create"
    /\ log[Len(log)] = "EXCEPTION:enviar"

\* C10: a run attempts the send exactly when the loader returned a table and
\* the analyzer returned both the aggregate and the statistics; the send
\* comes after exactly one call of generar_reporte and one of
\* generar_grafico, and the body handed to the provider is the string
\* generar_reporte returned, whether or not a chart was rendered.
C10_SendIffAnalysed ==
    /\ (pc = "fin" =>
          (Invocada("enviar_reporte_whatsapp") <=>
             /\ df # None
             /\ resultado # None
             /\ resultado[1][1] # None
             /\ resultado[1][2] # None))
    /\ (Invocada("enviar_reporte_whatsapp") =>
          /\ Veces("generar_reporte") = 1
          /\ Veces("generar_grafico") = 1
          /\ Veces("enviar_reporte_whatsapp") = 1
          /\ Posicion("generar_reporte") < Posicion("enviar_reporte_whatsapp")
          /\ Posicion("generar_grafico") < Posicion("enviar_reporte_whatsapp")
          /\ \A i \in DOMAIN mensajes :
                mensajes[i].body = reporte[1] /\ mensajes[i].media = None)

C10_Witness ==
    /\ pc = "fin"
    /\ Len(mensajes) = 1
    /\ ruta_grafico = Some(RutaGrafico)
    /\ reporte[1] \notin TextosDeFallo
    /\ mensajes[1].body = reporte[1]
    /\ mensajes[1].ok

====
